---- MODULE Spec2Model ----
(***************************************************************************)
(* DataRecorder (services/dataRecorder.ts): the fixed-rate sampler, the    *)
(* sample buffer and the session handshake over one WebSocket to the       *)
(* recording sink.  Time is abstracted: a timer (the 5 s handshake         *)
(* timeouts, the 3 s reconnect delay, the 10 ms sampling interval) may     *)
(* fire at any moment while it is live.  A sample carries its timestamp,   *)
(* counted in appends since the recording started, and the session that    *)
(* was current when it was built.  A session id of 0 and a timer handle of *)
(* 0 stand for null.  The last part models ReachableSpaceAnalyzer          *)
(* (the projection of the samples, the sector boundary and the analysis    *)
(* result) as operators over exact integer tables.                         *)
(***************************************************************************)
EXTENDS Integers, Sequences, FiniteSets, TLC

\* ------------------------------------------------------------- constants
BUFFER_SIZE == 100
SAMPLING_RATE == 10
\* ReachableSpaceAnalyzer
TWO_PI == 36000
N_SECTORS == 180
LENGTH == 1
UNIT == 25
GRID == 28
TOLERANCE == 2
GRID_TOLERANCE == 1
TiltAngles == {0, 3687, 7374}

\* ---------------------------------------------------------------- bounds
\* Spec: the handshakes and the connection, with a few ticks.
MaxCalls == 3
MaxConnections == 2
FewTicks == 3
\* BufferSpec: sessions long enough to fill the buffer.
MaxTicks == 102
BufferCalls == 2
BufferConnections == 2
MaxSendFailures == 1
\* TimeoutSpec: the handshake timeouts under fairness.
TimeoutCalls == 2
TimeoutConnections == 2
TimeoutTicks == 1
\* SampleSpec: the clock and the orientation source, with few ticks.
SampleCalls == 2
SampleConnections == 2
SampleTicks == 2
LateTick == 14
\* BoundarySpec and AnalysisSpec: the sizes of the analyzer's inputs.
MaxPoints == 3
MaxSeries == 4
MaxTime == 30
\* SectorSpec: the sector counts tried besides N_SECTORS.
MaxSectorCount == 12
\* ExtensionSpec: the length of the boundary.
MaxVertices == 4
\* DeviceSpec: the slots of navigator.getGamepads().
MaxGamepads == 3
\* ConnectionSpec
ManyConnections == 6
ConnectionCalls == 2
\* ServiceSpec: the session records and the runs of the synchronisation.
MaxSessions == 2
MaxSyncs == 2

VARIABLES
    wsId,              \* which WebSocket object this.ws is (0: none yet)
    readyState,        \* this.ws.readyState
    reconnectTimers,   \* pending setTimeout(connectWebSocket) timers
    isRecording,
    currentSessionId,
    dataBuffer,
    samplingInterval,  \* handle held by the recorder, 0 = null
    liveIntervals,     \* handles of the setInterval timers that are live
    user,              \* useStore.getState().user is non-null
    calls,             \* the startRecording/stopRecording calls made so far;
                       \* session: the id a start was acknowledged with, the
                       \* id a stop asked to end
    listeners,         \* message listeners: [call, ws] attached by a call to a socket
    timeouts,          \* calls whose 5 s timeout is pending
    uploads,           \* stop handlers suspended in `await upload`
    inflight,          \* sink -> client messages not yet delivered
    nextSid,           \* next session id the sink assigns
    sent,              \* client -> sink messages of the current socket, in send
                       \* order, since the current session began
    appended,          \* samples appended since the recording started
    sendFailures,      \* ws.send calls that threw since the recording started
    now,               \* Date.now(), in ms since the recorder was constructed
    lastSampleTime,
    prevTick,          \* history: when the last tick of the session in progress
                       \* fired, or when its sampling started
    inputController,   \* window.inputController exists
    orientation,       \* what inputController.getOrientation() returns
    gamepads,          \* navigator.getGamepads(): the id of the device at each
                       \* index, NoDevice for an empty slot
    gamepadIndex,      \* InputController.gamepadIndex, NoIndex = null
    vJoyDeviceId,      \* InputController.vJoyDeviceId, NoDevice = null
    trainingData,      \* input-derived fields of the sample sampleData built last
    store,             \* useStore: sessionDuration and totalDataPoints
    sessionData,       \* the session record built last for the upload
    points,            \* ReachableSpaceAnalyzer: the argument of findTrueBoundaryPoints
    boundaryPoints,    \* <<>>, or <<what findTrueBoundaryPoints returned>>
    training_data,     \* the inputState of each sample of the session file
    analysisResult,    \* <<>>, or <<what analyzeReachableSpace returned>>
    sectorTest,        \* <<>>, or <<inSector of every sector for one azimuth>>
    givenBoundary,     \* the argument of extendBoundaryToHighestPlane
    extension,         \* <<>>, or <<what extendBoundaryToHighestPlane returned>>
    visualization,     \* <<>>, or <<the mesh generate3DVisualization built>>
    localStorage,      \* window.localStorage: mock_auth_session is set, the ids
                       \* with a training_session_<id> entry, and the array of
                       \* local_training_sessions_index
    validApiKey,       \* VITE_FIREBASE_API_KEY is set to a real key
    firestore,         \* the ids of the documents of training_sessions
    syncResult         \* the last syncLocalTrainingDataToFirebase: which run it
                       \* was, what it returned, and the ids it wrote to Firebase

clockVars == <<now, lastSampleTime, prevTick>>
deviceVars == <<gamepads, gamepadIndex, vJoyDeviceId>>
inputVars == <<inputController, orientation, deviceVars>>
recordVars == <<store, sessionData>>

analyzerVars ==
    <<points, boundaryPoints, training_data, analysisResult, sectorTest,
      givenBoundary, extension, visualization>>

recorderVars ==
    <<wsId, readyState, reconnectTimers, isRecording, currentSessionId,
      dataBuffer, samplingInterval, liveIntervals, user, calls, listeners,
      timeouts, uploads, inflight, nextSid, sent, appended, sendFailures,
      clockVars, inputVars, trainingData, recordVars>>

serviceVars == <<localStorage, validApiKey, firestore, syncResult>>

\* What the recorder's actions leave alone.
offlineVars == <<analyzerVars, serviceVars>>

vars == <<recorderVars, offlineVars>>

NoData == <<>>

\* The TrainingData object of the n-th append of session s.
Sample(n, s) == [timestamp |-> n, session |-> s]

Msg(t, s, d) == [type |-> t, sid |-> s, data |-> d]

\* ------------------------------------------------------------ the sink
\* What the sink may answer to a request; "none" is no answer (or one that
\* never arrives).
SinkReplies(t) ==
    CASE t = "start_session" -> {"session_started", "error", "none"}
      [] t = "end_session"   -> {"session_ended", "error", "none"}
      [] t = "training_data" -> {"data_received", "none"}
      [] OTHER               -> {"none"}

Reply(r, s) == IF r = "none" THEN <<>> ELSE <<Msg(r, s, NoData)>>

\* ------------------------------------------------------- pure helpers
Resolve(cs, c, v) ==
    IF cs[c].result = "pending" THEN [cs EXCEPT ![c].result = v] ELSE cs

FreshHandle(live) == CHOOSE h \in 1..(Cardinality(live) + 1) : h \notin live

\* startFixedRateSampling: clear the interval held, then set a new one.
StartFixedRateSampling(t) ==
    LET cleared == IF t.samplingInterval # 0
                   THEN t.liveIntervals \ {t.samplingInterval}
                   ELSE t.liveIntervals
        h == FreshHandle(cleared)
    IN  [samplingInterval |-> h, liveIntervals |-> cleared \cup {h}]

RECURSIVE StartSamplingTimes(_, _)
StartSamplingTimes(t, n) ==
    IF n = 0 THEN t ELSE StartSamplingTimes(StartFixedRateSampling(t), n - 1)

\* flushBuffer as it would be if it did not empty the buffer after a send.
FlushBufferKeeps(buf, sid, rs, ok) ==
    IF Len(buf) = 0 \/ sid = 0 \/ rs # "OPEN"
    THEN [dataBuffer |-> buf, out |-> <<>>, threw |-> FALSE]
    ELSE IF ok
         THEN [dataBuffer |-> buf,
               out |-> <<Msg("training_data", sid, buf)>>, threw |-> FALSE]
         ELSE [dataBuffer |-> buf, out |-> <<>>, threw |-> TRUE]

\* flushBuffer: what it leaves in the buffer and what it puts on the wire.
\* ok: ws.send did not throw.
FlushBuffer(buf, sid, rs, ok) ==
    IF Len(buf) = 0 \/ sid = 0 \/ rs # "OPEN"
    THEN [dataBuffer |-> buf, out |-> <<>>, threw |-> FALSE]
    ELSE IF ok
         THEN [dataBuffer |-> <<>>,
               out |-> <<Msg("training_data", sid, buf)>>, threw |-> FALSE]
         ELSE [dataBuffer |-> buf, out |-> <<>>, threw |-> TRUE]

SendOk == {TRUE} \cup (IF sendFailures < MaxSendFailures THEN {FALSE} ELSE {})

\* ------------------------------------------------- the sampled input
AtRest == [pitch |-> 0, roll |-> 0, yaw |-> 0]
Turned == [pitch |-> 0, roll |-> 0, yaw |-> 1]
Tilted == [pitch |-> 1, roll |-> 1, yaw |-> 0]
Orientations == {AtRest, Turned, Tilted}

NoSample == [inputState |-> AtRest, hasValidInput |-> FALSE, actualInterval |-> -1]

\* The validity test as it would be if it looked at the tilt axes only.
HasTilt(o) == o.pitch # 0 \/ o.roll # 0

\* The interval as it would be if the nominal sampling period were recorded.
NominalInterval(currentTime, last) == SAMPLING_RATE

\* sampleData, line 202.
HasValidInput(o) == o.pitch # 0 \/ o.roll # 0 \/ o.yaw # 0

\* sampleData, line 190.
ActualInterval(currentTime, last) == currentTime - last

\* ------------------------------------------------- the session record
NoRecord == [session_id |-> 0, session_start_time |-> 0, session_end_time |-> 0,
             session_duration_ms |-> 0, total_data_points |-> 0]

\* buildTrainingSessionData for the session_ended message of session sid.  The
\* two clock reads of lines 368 and 369 are taken at the same millisecond.
BuildTrainingSessionData(sid) ==
    IF ~user THEN NoRecord
    ELSE [session_id |-> sid,
          session_start_time |-> now - store.sessionDuration,
          session_end_time |-> now,
          session_duration_ms |-> store.sessionDuration,
          total_data_points |-> store.totalDataPoints]

\* ------------------------------------------------- the input devices
NoIndex == -1
NoDevice == ""

\* The ids of the devices that may be plugged in, and for each the words of
\* isVJoyDevice's list that its lower-cased id includes.
DeviceIds == {"Xbox Wireless Controller", "vJoy Device", "USB Gamepad"}

Includes(deviceId) ==
    CASE deviceId = "Xbox Wireless Controller" -> {}
      [] deviceId = "vJoy Device" -> {"vjoy"}
      [] deviceId = "USB Gamepad" -> {"usb"}

\* isVJoyDevice
IsVJoyDevice(deviceId) ==
    Includes(deviceId) \cap {"vjoy", "virtual", "joystick", "feed", "face",
                             "unknown", "hid", "usb"} # {}

\* Array.prototype.find over the devices present, in index order: the index of
\* the first one for which isVJoyDevice gives vJoy, NoIndex when there is none.
Find(gps, vJoy) ==
    LET found == {i \in DOMAIN gps :
                     gps[i] # NoDevice /\ IsVJoyDevice(gps[i]) = vJoy}
    IN  IF found = {} THEN NoIndex
        ELSE CHOOSE i \in found : \A j \in found : i <= j

\* autoSelectDevice, for the device list gps and the fields as they are
\* before the call.
AutoSelectDevice(gps, index, vJoyId) ==
    IF \A i \in DOMAIN gps : gps[i] = NoDevice
    THEN [gamepadIndex |-> index, vJoyDeviceId |-> vJoyId]
    ELSE LET standardGamepad == Find(gps, FALSE)
             vJoyGamepad == Find(gps, TRUE)
         IN  IF standardGamepad # NoIndex
             THEN [gamepadIndex |-> standardGamepad, vJoyDeviceId |-> NoDevice]
             ELSE IF vJoyGamepad # NoIndex
                  THEN [gamepadIndex |-> vJoyGamepad,
                        vJoyDeviceId |-> gps[vJoyGamepad]]
                  ELSE [gamepadIndex |-> index, vJoyDeviceId |-> vJoyId]

\* ------------------------------------------------------------------ Init
Init ==
    /\ wsId = 1
    /\ readyState = "CONNECTING"
    /\ reconnectTimers = 0
    /\ isRecording = FALSE
    /\ currentSessionId = 0
    /\ dataBuffer = <<>>
    /\ samplingInterval = 0
    /\ liveIntervals = {}
    /\ user \in BOOLEAN
    /\ calls = <<>>
    /\ listeners = {}
    /\ timeouts = {}
    /\ uploads = {}
    /\ inflight = <<>>
    /\ nextSid = 1
    /\ sent = <<>>
    /\ appended = 0
    /\ sendFailures = 0
    /\ now = 0
    /\ lastSampleTime = 0
    /\ prevTick = 0
    /\ inputController = TRUE
    /\ orientation = AtRest
    /\ gamepads = [i \in 0..(MaxGamepads - 1) |-> NoDevice]
    /\ gamepadIndex = NoIndex
    /\ vJoyDeviceId = NoDevice
    /\ trainingData = NoSample
    /\ store = [sessionDuration |-> 0, totalDataPoints |-> 0]
    /\ sessionData = NoRecord
    /\ points = <<>>
    /\ boundaryPoints = <<>>
    /\ training_data = <<>>
    /\ analysisResult = <<>>
    /\ sectorTest = <<>>
    /\ givenBoundary = <<>>
    /\ extension = <<>>
    /\ visualization = <<>>
    /\ localStorage = [mock_auth_session |-> FALSE, sessions |-> {},
                       index |-> <<>>]
    /\ validApiKey = TRUE
    /\ firestore = {}
    /\ syncResult = [run |-> 0, successCount |-> 0, written |-> {}]

\* --------------------------------------------------------------- actions
\* ws.onopen
OnOpen ==
    /\ readyState = "CONNECTING"
    /\ readyState' = "OPEN"
    /\ sent' = Append(sent, Msg("connection", 0, NoData))
    /\ UNCHANGED <<clockVars, inputVars, trainingData, recordVars, offlineVars>>
    /\ UNCHANGED <<wsId, reconnectTimers, isRecording, currentSessionId,
                   dataBuffer, samplingInterval, liveIntervals, user, calls,
                   listeners, timeouts, uploads, inflight, nextSid, appended,
                   sendFailures>>

\* onclose as it would be if it left the session fields alone.
OnCloseKeepsSession ==
    /\ UNCHANGED <<currentSessionId, isRecording>>
    /\ reconnectTimers' = reconnectTimers + 1

\* onclose as it would be if it scheduled no reconnect.
OnCloseNoRetry ==
    /\ currentSessionId' = 0
    /\ isRecording' = FALSE
    /\ UNCHANGED reconnectTimers

\* onclose as it would be if it scheduled two reconnects.
OnCloseRetriesTwice ==
    /\ currentSessionId' = 0
    /\ isRecording' = FALSE
    /\ reconnectTimers' = reconnectTimers + 2

\* ws.onclose: after a failed connection attempt or the loss of an open one.
OnCloseEffect ==
    /\ currentSessionId' = 0
    /\ isRecording' = FALSE
    /\ reconnectTimers' = reconnectTimers + 1

OnClose(maxConnections) ==
    /\ readyState \in {"CONNECTING", "OPEN"}
    /\ wsId < maxConnections
    /\ readyState' = "CLOSED"
    /\ OnCloseEffect
    /\ inflight' = <<>>
    /\ UNCHANGED <<clockVars, inputVars, trainingData, recordVars, offlineVars>>
    /\ UNCHANGED <<wsId, dataBuffer, samplingInterval, liveIntervals, user,
                   calls, listeners, timeouts, uploads, nextSid, sent, appended,
                   sendFailures>>

\* The reconnect timer fires: connectWebSocket.
ConnectWebSocket ==
    /\ reconnectTimers > 0
    /\ reconnectTimers' = reconnectTimers - 1
    /\ wsId' = wsId + 1
    /\ readyState' = "CONNECTING"
    /\ sent' = <<>>
    /\ UNCHANGED <<clockVars, inputVars, trainingData, recordVars, offlineVars>>
    /\ UNCHANGED <<isRecording, currentSessionId, dataBuffer, samplingInterval,
                   liveIntervals, user, calls, listeners, timeouts, uploads,
                   inflight, nextSid, appended, sendFailures>>

\* The guard of startRecording as it would be without the isRecording test.
StartRejectedIfNotOpen == wsId = 0 \/ readyState # "OPEN"

\* startRecording, line 99: the call is refused.
StartRejected == isRecording \/ wsId = 0 \/ readyState # "OPEN"

\* startRecording
StartRecording(maxCalls) ==
    /\ Len(calls) < maxCalls
    /\ IF StartRejected \/ ~user
       THEN /\ calls' = Append(calls, [kind |-> "start", accepted |-> FALSE,
                                       result |-> "false", ack |-> "none",
                                       session |-> 0])
            /\ UNCHANGED <<listeners, timeouts, sent, inflight, nextSid>>
       ELSE \E r \in SinkReplies("start_session") :
            /\ calls' = Append(calls, [kind |-> "start", accepted |-> TRUE,
                                       result |-> "pending", ack |-> "none",
                                       session |-> 0])
            /\ timeouts' = timeouts \cup {Len(calls) + 1}
            /\ listeners' = listeners \cup {[call |-> Len(calls) + 1, ws |-> wsId]}
            /\ sent' = Append(sent, Msg("start_session", 0, NoData))
            /\ inflight' = inflight \o Reply(r, IF r = "session_started" THEN nextSid ELSE 0)
            /\ nextSid' = IF r = "session_started" THEN nextSid + 1 ELSE nextSid
    /\ UNCHANGED <<clockVars, inputVars, trainingData, recordVars, offlineVars>>
    /\ UNCHANGED <<wsId, readyState, reconnectTimers, isRecording,
                   currentSessionId, dataBuffer, samplingInterval,
                   liveIntervals, user, uploads, appended, sendFailures>>

\* stopRecording, line 259: the call is refused.
StopRejected ==
    ~isRecording \/ currentSessionId = 0 \/ wsId = 0 \/ readyState # "OPEN"

\* stopRecording as it would be without the final flush.
StopPrepareNoFlush(ok) ==
    [samplingInterval |-> 0,
     liveIntervals |-> IF samplingInterval # 0
                       THEN liveIntervals \ {samplingInterval}
                       ELSE liveIntervals,
     dataBuffer |-> dataBuffer, out |-> <<>>, threw |-> FALSE]

\* stopRecording, lines 264-270: what is done before the end_session request.
\* clear: the sampling interval is cleared; flush: flushBuffer is called.
StopPrepare(ok) ==
    LET f == FlushBuffer(dataBuffer, currentSessionId, readyState, ok)
    IN  [samplingInterval |-> 0,
         liveIntervals |-> IF samplingInterval # 0
                           THEN liveIntervals \ {samplingInterval}
                           ELSE liveIntervals,
         dataBuffer |-> f.dataBuffer, out |-> f.out, threw |-> f.threw]

\* stopRecording
StopRecording(maxCalls) ==
    /\ Len(calls) < maxCalls
    /\ IF StopRejected
       THEN /\ calls' = Append(calls, [kind |-> "stop", accepted |-> FALSE,
                                       result |-> "false", ack |-> "none",
                                       session |-> 0])
            /\ UNCHANGED <<listeners, timeouts, sent, inflight, dataBuffer,
                           samplingInterval, liveIntervals, sendFailures>>
       ELSE \E ok \in SendOk, rd \in SinkReplies("training_data"),
               r \in SinkReplies("end_session") :
            LET p == StopPrepare(ok)
            IN  /\ (p.out = <<>> => rd = "none")
                /\ samplingInterval' = p.samplingInterval
                /\ liveIntervals' = p.liveIntervals
                /\ dataBuffer' = p.dataBuffer
                /\ sendFailures' = sendFailures + (IF p.threw THEN 1 ELSE 0)
                /\ calls' = Append(calls, [kind |-> "stop", accepted |-> TRUE,
                                           result |-> "pending", ack |-> "none",
                                           session |-> currentSessionId])
                /\ timeouts' = timeouts \cup {Len(calls) + 1}
                /\ listeners' = listeners \cup {[call |-> Len(calls) + 1, ws |-> wsId]}
                /\ sent' = (sent \o p.out)
                             \o <<Msg("end_session", currentSessionId, NoData)>>
                /\ inflight' = (inflight \o Reply(rd, currentSessionId))
                                 \o Reply(r, currentSessionId)
    /\ UNCHANGED <<clockVars, inputVars, trainingData, recordVars, offlineVars>>
    /\ UNCHANGED <<wsId, readyState, reconnectTimers, isRecording,
                   currentSessionId, user, uploads, nextSid, appended>>

\* A timeout that reported success.
TimeoutResolvesTrue == "true"

\* What a handshake timeout resolves its promise with (lines 122-125, 278-281).
TimeoutResult == "false"

\* The 5 s timeout of call c fires.
Timeout(c) ==
    /\ c \in timeouts
    /\ timeouts' = timeouts \ {c}
    /\ calls' = Resolve(calls, c, TimeoutResult)
    /\ UNCHANGED <<clockVars, inputVars, trainingData, recordVars, offlineVars>>
    /\ UNCHANGED <<wsId, readyState, reconnectTimers, isRecording,
                   currentSessionId, dataBuffer, samplingInterval,
                   liveIntervals, user, listeners, uploads, inflight, nextSid,
                   sent, appended, sendFailures>>

\* A start handler that took any answer to its request for the acknowledgement.
StartHandlesAnyReply(t) == t \in {"session_started", "error"}

\* A stop handler that took any answer to its request for the acknowledgement.
StopHandlesAnyReply(t) == t \in {"session_ended", "error"}

\* The message types the two handshake handlers act on (lines 130, 286).
StartHandles(t) == t = "session_started"
StopHandles(t) == t = "session_ended"

\* The listeners of the given kind that a message of type t, arriving on the
\* current socket, makes act.
Acting(kind, t) ==
    {l \in listeners :
        /\ l.ws = wsId
        /\ calls[l.call].kind = kind
        /\ IF kind = "start" THEN StartHandles(t) ELSE StopHandles(t)}

\* The start handler as it would be if it kept the buffer.
KeptBuffer(buf) == buf

\* The start handler, line 137: the buffer of the new session.
NewSessionBuffer(buf) == <<>>

\* ws.onmessage and the message listeners, for the oldest message in flight.
OnMessage ==
    /\ readyState = "OPEN"
    /\ inflight # <<>>
    /\ LET m == Head(inflight)
           starts == Acting("start", m.type)
           stops == Acting("stop", m.type)
           hit == {l.call : l \in starts \cup stops}
           t == StartSamplingTimes([samplingInterval |-> samplingInterval,
                                    liveIntervals |-> liveIntervals],
                                   Cardinality(starts))
       IN  /\ inflight' = Tail(inflight)
           /\ listeners' = listeners \ (starts \cup stops)
           /\ timeouts' = timeouts \ hit
           /\ uploads' = uploads \cup {l.call : l \in stops}
           /\ calls' = [c \in DOMAIN calls |->
                          LET a == IF c \in {l.call : l \in starts}
                                   THEN [calls[c] EXCEPT !.ack = m.type,
                                                         !.session = m.sid]
                                   ELSE IF c \in hit
                                   THEN [calls[c] EXCEPT !.ack = m.type]
                                   ELSE calls[c]
                          IN  IF c \in {l.call : l \in starts}
                                   /\ a.result = "pending"
                              THEN [a EXCEPT !.result = "true"]
                              ELSE a]
           /\ IF starts # {}
              THEN /\ isRecording' = TRUE
                   /\ dataBuffer' = NewSessionBuffer(dataBuffer)
                   /\ currentSessionId' = m.sid
                   /\ appended' = 0
                   /\ sendFailures' = 0
                   /\ sent' = <<>>
              ELSE UNCHANGED <<isRecording, dataBuffer, currentSessionId,
                               appended, sendFailures, sent>>
           /\ samplingInterval' = t.samplingInterval
           /\ liveIntervals' = t.liveIntervals
    /\ LET m == Head(inflight)
       IN  /\ IF Acting("start", m.type) # {}
              THEN lastSampleTime' = now /\ prevTick' = now
              ELSE UNCHANGED <<lastSampleTime, prevTick>>
           /\ IF Acting("stop", m.type) # {}
              THEN sessionData' = BuildTrainingSessionData(m.sid)
              ELSE UNCHANGED sessionData
    /\ UNCHANGED <<now, inputVars, trainingData, store, offlineVars>>
    /\ UNCHANGED <<wsId, readyState, reconnectTimers, user, nextSid>>

\* The rest of stopRecording's handler, after `await upload` (lines 293-298).
UploadDone(c) ==
    /\ c \in uploads
    /\ uploads' = uploads \ {c}
    /\ isRecording' = FALSE
    /\ currentSessionId' = 0
    /\ calls' = Resolve(calls, c, "true")
    /\ UNCHANGED <<clockVars, inputVars, trainingData, recordVars, offlineVars>>
    /\ UNCHANGED <<wsId, readyState, reconnectTimers, dataBuffer,
                   samplingInterval, liveIntervals, user, listeners, timeouts,
                   inflight, nextSid, sent, appended, sendFailures>>

\* sampleData as it would be without the test of line 182.
SampleNeverSkipped == FALSE

\* sampleData, line 182: the tick is ignored.
SampleSkipped == ~isRecording \/ currentSessionId = 0

\* The capacity test as it would be with > for >=.
CapacityExceeded(buf) == Len(buf) > BUFFER_SIZE

\* sampleData, line 237: the buffer is flushed after the append.
CapacityReached(buf) == Len(buf) >= BUFFER_SIZE

\* One tick of a live sampling interval, dt ms after the previous event:
\* sampleData.
SampleData(bound, delays) ==
    /\ liveIntervals # {}
    /\ \E dt \in delays :
       LET currentTime == now + dt
       IN  /\ currentTime <= MaxTime
           /\ now' = currentTime
           /\ prevTick' = IF SampleSkipped THEN prevTick ELSE currentTime
           /\ IF SampleSkipped
              THEN UNCHANGED <<lastSampleTime, trainingData, dataBuffer,
                               appended, sent, inflight, sendFailures>>
              ELSE /\ lastSampleTime' = currentTime
                   /\ IF ~inputController
                      THEN UNCHANGED <<trainingData, dataBuffer, appended, sent,
                                       inflight, sendFailures>>
                      ELSE /\ appended < bound
                           /\ appended' = appended + 1
                           /\ trainingData' =
                                [inputState |-> orientation,
                                 hasValidInput |-> HasValidInput(orientation),
                                 actualInterval |->
                                     ActualInterval(currentTime, lastSampleTime)]
                           /\ LET pushed == Append(dataBuffer,
                                                   Sample(appended + 1, currentSessionId))
                              IN  IF CapacityReached(pushed)
                                  THEN \E ok \in SendOk, rd \in SinkReplies("training_data") :
                                       LET f == FlushBuffer(pushed, currentSessionId,
                                                            readyState, ok)
                                       IN  /\ (f.out = <<>> => rd = "none")
                                           /\ dataBuffer' = f.dataBuffer
                                           /\ sent' = sent \o f.out
                                           /\ inflight' = inflight \o Reply(rd, currentSessionId)
                                           /\ sendFailures' =
                                                sendFailures + (IF f.threw THEN 1 ELSE 0)
                                  ELSE /\ dataBuffer' = pushed
                                       /\ UNCHANGED <<sent, inflight, sendFailures>>
    /\ UNCHANGED <<wsId, readyState, reconnectTimers, isRecording,
                   currentSessionId, samplingInterval, liveIntervals, user,
                   calls, listeners, timeouts, uploads, nextSid, inputVars,
                   recordVars, offlineVars>>

\* sampleData where the passing of time is left out: every tick reads the
\* same clock value.
Tick(bound) == SampleData(bound, {0})

\* The orientation source appears, disappears or reports another orientation.
InputChange ==
    /\ \E a \in BOOLEAN, o \in Orientations :
         /\ (~a => o = AtRest)
         /\ <<a, o>> # <<inputController, orientation>>
         /\ inputController' = a
         /\ orientation' = o
    /\ UNCHANGED <<wsId, readyState, reconnectTimers, isRecording,
                   currentSessionId, dataBuffer, samplingInterval,
                   liveIntervals, user, calls, listeners, timeouts, uploads,
                   inflight, nextSid, sent, appended, sendFailures, clockVars,
                   trainingData, recordVars, offlineVars, deviceVars>>

\* A device is plugged into the free slot index: the gamepadconnected handler.
GamepadConnected ==
    /\ \E index \in DOMAIN gamepads, id \in DeviceIds :
         /\ gamepads[index] = NoDevice
         /\ gamepads' = [gamepads EXCEPT ![index] = id]
         /\ IF ~IsVJoyDevice(id)
            THEN IF gamepadIndex = NoIndex
                 THEN gamepadIndex' = index /\ vJoyDeviceId' = NoDevice
                 ELSE UNCHANGED <<gamepadIndex, vJoyDeviceId>>
            ELSE IF gamepadIndex = NoIndex
                 THEN gamepadIndex' = index /\ vJoyDeviceId' = id
                 ELSE UNCHANGED <<gamepadIndex, vJoyDeviceId>>
    /\ UNCHANGED <<wsId, readyState, reconnectTimers, isRecording,
                   currentSessionId, dataBuffer, samplingInterval,
                   liveIntervals, user, calls, listeners, timeouts, uploads,
                   inflight, nextSid, sent, appended, sendFailures, clockVars,
                   inputController, orientation, trainingData, recordVars,
                   offlineVars>>

\* The device at index is unplugged: it leaves navigator.getGamepads() and the
\* gamepaddisconnected handler runs.
GamepadDisconnected ==
    /\ \E index \in DOMAIN gamepads :
         /\ gamepads[index] # NoDevice
         /\ gamepads' = [gamepads EXCEPT ![index] = NoDevice]
         /\ IF gamepadIndex = index
            THEN LET selected == AutoSelectDevice(gamepads', NoIndex, NoDevice)
                 IN  /\ gamepadIndex' = selected.gamepadIndex
                     /\ vJoyDeviceId' = selected.vJoyDeviceId
            ELSE UNCHANGED <<gamepadIndex, vJoyDeviceId>>
    /\ UNCHANGED <<wsId, readyState, reconnectTimers, isRecording,
                   currentSessionId, dataBuffer, samplingInterval,
                   liveIntervals, user, calls, listeners, timeouts, uploads,
                   inflight, nextSid, sent, appended, sendFailures, clockVars,
                   inputController, orientation, trainingData, recordVars,
                   offlineVars>>

NextDevice == GamepadConnected \/ GamepadDisconnected

DeviceSpec == Init /\ [][NextDevice]_vars

\* ------------------------------------------------- reading the wire log
\* The samples of the training_data messages tagged sid among log[1..n], in
\* send order.
RECURSIVE SentSamples(_, _, _)
SentSamples(log, sid, n) ==
    IF n = 0 THEN <<>>
    ELSE IF log[n].type = "training_data" /\ log[n].sid = sid
         THEN SentSamples(log, sid, n - 1) \o log[n].data
         ELSE SentSamples(log, sid, n - 1)

\* The samples appended since the recording of session sid started.
AppendedSamples(sid) == [k \in 1..appended |-> Sample(k, sid)]

\* The positions of the training_data messages tagged sid among log[1..n].
BatchesAt(log, sid, n) ==
    {i \in 1..n : log[i].type = "training_data" /\ log[i].sid = sid}

\* What a step put on the wire.
NewlySent ==
    IF Len(sent') >= Len(sent) /\ SubSeq(sent', 1, Len(sent)) = sent
    THEN SubSeq(sent', Len(sent) + 1, Len(sent'))
    ELSE sent'

StartListenerOnSocket ==
    \E l \in listeners :
        l.ws = wsId /\ calls[l.call].kind = "start" /\ calls[l.call].accepted

Next ==
    \/ OnOpen
    \/ OnClose(MaxConnections)
    \/ ConnectWebSocket
    \/ StartRecording(MaxCalls)
    \/ StopRecording(MaxCalls)
    \/ \E c \in 1..MaxCalls : Timeout(c)
    \/ OnMessage
    \/ \E c \in 1..MaxCalls : UploadDone(c)
    \/ Tick(FewTicks)

Spec == Init /\ [][Next]_vars

\* The reconnect delay elapses: a pending reconnect timer does fire.
LiveSpec == Init /\ [][Next]_vars /\ WF_vars(ConnectWebSocket)

NextTimeout ==
    \/ OnOpen
    \/ OnClose(TimeoutConnections)
    \/ ConnectWebSocket
    \/ StartRecording(TimeoutCalls)
    \/ StopRecording(TimeoutCalls)
    \/ \E c \in 1..TimeoutCalls : Timeout(c)
    \/ OnMessage
    \/ \E c \in 1..TimeoutCalls : UploadDone(c)
    \/ Tick(TimeoutTicks)

\* The 5 s of a handshake timeout elapse: a pending timeout does fire.
TimeoutSpec ==
    Init /\ [][NextTimeout]_vars
         /\ \A c \in 1..TimeoutCalls : WF_vars(Timeout(c))

NextBuffer ==
    \/ OnOpen
    \/ OnClose(BufferConnections)
    \/ ConnectWebSocket
    \/ StartRecording(BufferCalls)
    \/ StopRecording(BufferCalls)
    \/ \E c \in 1..BufferCalls : Timeout(c)
    \/ OnMessage
    \/ \E c \in 1..BufferCalls : UploadDone(c)
    \/ Tick(MaxTicks)

BufferSpec == Init /\ [][NextBuffer]_vars

NextConnection ==
    \/ OnOpen
    \/ OnClose(ManyConnections)
    \/ ConnectWebSocket
    \/ StartRecording(ConnectionCalls)
    \/ OnMessage

\* The channel is lost and re-established many times.
ConnectionSpec == Init /\ [][NextConnection]_vars

\* The delays after which a tick fires: the nominal one or a late one.
Delays == {SAMPLING_RATE, LateTick}

NextSample ==
    \/ OnOpen
    \/ OnClose(SampleConnections)
    \/ ConnectWebSocket
    \/ StartRecording(SampleCalls)
    \/ StopRecording(SampleCalls)
    \/ \E c \in 1..SampleCalls : Timeout(c)
    \/ OnMessage
    \/ \E c \in 1..SampleCalls : UploadDone(c)
    \/ SampleData(SampleTicks, Delays)
    \/ InputChange

SampleSpec == Init /\ [][NextSample]_vars

\* ================================================ ReachableSpaceAnalyzer
\* Angles are in hundredths of a degree where the code has radians, and the
\* sines and cosines are UNIT times their value, so that the angles and the
\* directions the model uses have exact integer tables.  The coordinates of a
\* projected point are GRID * UNIT * UNIT times the code's; GRID makes the
\* quotients of extendBoundaryToHighestPlane integers.  The code's tolerance
\* of 1e-10 is below one unit of these coordinates (GRID_TOLERANCE: only equal
\* heights are within it), and is TOLERANCE units of the heights of
\* BoundaryLattice, which are in units of 5e-11.

\* What Math.sqrt returns for the squares the model takes the root of.
Sqrt(n) == CHOOSE r \in TiltAngles : r * r = n

Sin(a) ==
    CASE a = 0 -> 0
      [] a = 3687 -> 15
      [] a = 7374 -> 24
      [] a = 9000 -> 25
      [] a = 18000 -> 0
      [] a = -9000 -> -25

Cos(a) ==
    CASE a = 0 -> 25
      [] a = 3687 -> 20
      [] a = 7374 -> 7
      [] a = 9000 -> 0
      [] a = 18000 -> -25
      [] a = -9000 -> 0

\* The arctangent of a / b for a >= 0 and b > 0, for the slopes the model uses.
Atan(a, b) ==
    CASE a = 0 -> 0
      [] 100 * a = b -> 57
      [] 4 * a = 3 * b -> 3687
      [] a = b -> 4500
      [] 3 * a = 4 * b -> 5313

\* Math.atan2, with values in (-TWO_PI / 2, TWO_PI / 2].
Atan2(y, x) ==
    IF x = 0
    THEN IF y > 0 THEN TWO_PI \div 4 ELSE IF y < 0 THEN -(TWO_PI \div 4) ELSE 0
    ELSE IF x > 0
         THEN IF y >= 0 THEN Atan(y, x) ELSE -Atan(-y, x)
         ELSE IF y >= 0 THEN TWO_PI \div 2 - Atan(y, -x)
                        ELSE Atan(-y, -x) - TWO_PI \div 2

\* extractJoystickData
ExtractJoystickData(trainingData_) ==
    [rolls |-> [i \in 1..Len(trainingData_) |-> trainingData_[i].roll],
     pitches |-> [i \in 1..Len(trainingData_) |-> trainingData_[i].pitch]]

\* convertAnglesToCoordinates
ConvertAnglesToCoordinates(rolls, pitches, length) ==
    [i \in 1..Len(rolls) |->
        LET roll == rolls[i]
            pitch == pitches[i]
            tiltAngle == Sqrt(roll * roll + pitch * pitch)
            azimuth == Atan2(pitch, roll)
        IN  [x |-> GRID * length * Sin(tiltAngle) * Cos(azimuth),
             y |-> GRID * length * Sin(tiltAngle) * Sin(azimuth),
             z |-> GRID * length * Cos(tiltAngle) * UNIT]]

\* findTrueBoundaryPoints, lines 172-193: the point lies in sector i.  The
\* angles are exact here; InSectorOfCircle is the same test on doubles.
InSector(point, i, nSectors) ==
    LET sectorWidth == TWO_PI \div nSectors
        sectorCenter == i * sectorWidth
        sectorStart == sectorCenter - sectorWidth \div 2
        sectorEnd == sectorCenter + sectorWidth \div 2
        azimuth == Atan2(point.y, point.x)
        azimuthPositive == IF azimuth < 0 THEN azimuth + TWO_PI ELSE azimuth
    IN  IF sectorStart < 0
        THEN azimuthPositive >= sectorStart + TWO_PI \/ azimuthPositive < sectorEnd
        ELSE IF sectorEnd > TWO_PI
             THEN azimuthPositive >= sectorStart
                    \/ azimuthPositive < sectorEnd - TWO_PI
             ELSE azimuthPositive >= sectorStart /\ azimuthPositive < sectorEnd

\* The square of the distance of line 204.  Math.sqrt is increasing, so the
\* distances compare as their squares do.
DistanceSquared(point) ==
    point.x * point.x + point.y * point.y + point.z * point.z

\* The comparison as it would be if the nearest point were kept.
IsNearer(distance, maxDistance) == maxDistance = -1 \/ distance < maxDistance

\* findTrueBoundaryPoints, line 205.
IsFarther(distance, maxDistance) == distance > maxDistance

\* findTrueBoundaryPoints, lines 198-213: the loop over the sector's points
\* from the k-th on; farthestPoint is <<>> for null.
RECURSIVE FarthestPoint(_, _, _, _)
FarthestPoint(sectorPoints, k, maxDistance, farthestPoint) ==
    IF k > Len(sectorPoints) THEN farthestPoint
    ELSE LET distance == DistanceSquared(sectorPoints[k])
         IN  IF IsFarther(distance, maxDistance)
             THEN FarthestPoint(sectorPoints, k + 1, distance, <<sectorPoints[k]>>)
             ELSE FarthestPoint(sectorPoints, k + 1, maxDistance, farthestPoint)

\* findTrueBoundaryPoints, lines 171-214: what the loop over the sectors
\* lo .. hi - 1 pushes, in that order (the range is halved to keep the
\* evaluation shallow).
RECURSIVE SectorBoundaries(_, _, _, _)
SectorBoundaries(points_, nSectors, lo, hi) ==
    IF lo >= hi THEN <<>>
    ELSE IF hi = lo + 1
    THEN LET sectorPoints == SelectSeq(points_, LAMBDA p : InSector(p, lo, nSectors))
         IN  IF Len(sectorPoints) > 0
             THEN FarthestPoint(sectorPoints, 1, -1, <<>>)
             ELSE <<>>
    ELSE LET mid == (lo + hi) \div 2
         IN  SectorBoundaries(points_, nSectors, lo, mid)
                 \o SectorBoundaries(points_, nSectors, mid, hi)

\* Array.prototype.sort with the comparator of lines 218-222: stable, by
\* ascending Math.atan2(y, x).
RECURSIVE InsertByAzimuth(_, _)
InsertByAzimuth(sorted, p) ==
    IF sorted = <<>> THEN <<p>>
    ELSE LET last == sorted[Len(sorted)]
         IN  IF Atan2(last.y, last.x) - Atan2(p.y, p.x) > 0
             THEN Append(InsertByAzimuth(SubSeq(sorted, 1, Len(sorted) - 1), p), last)
             ELSE Append(sorted, p)

RECURSIVE SortByAzimuth(_)
SortByAzimuth(s) ==
    IF s = <<>> THEN <<>>
    ELSE InsertByAzimuth(SortByAzimuth(SubSeq(s, 1, Len(s) - 1)), s[Len(s)])

\* findTrueBoundaryPoints
FindTrueBoundaryPoints(points_, nSectors) ==
    SortByAzimuth(SectorBoundaries(points_, nSectors, 0, nSectors))

\* The largest z among the boundary points (extendBoundaryToHighestPlane,
\* lines 234-239).
RECURSIVE MaxHeight(_)
MaxHeight(boundary) ==
    IF Len(boundary) = 1 THEN boundary[1].z
    ELSE LET rest == MaxHeight(Tail(boundary))
         IN  IF boundary[1].z > rest THEN boundary[1].z ELSE rest

Abs(x) == IF x < 0 THEN -x ELSE x

\* The test as it would be if only a point exactly at the height were kept.
ExactlyAtHighestPlane(z, maxHeight, tolerance) == z = maxHeight

\* extendBoundaryToHighestPlane, line 245.
AtHighestPlane(z, maxHeight, tolerance) == Abs(z - maxHeight) < tolerance

\* extendBoundaryToHighestPlane.  tolerance: 1e-10 in the unit of the
\* coordinates.  The quotients are exact for the points the model uses.
ExtendBoundaryToHighestPlane(boundary, tolerance) ==
    IF Len(boundary) = 0 THEN [extendedPoints |-> <<>>, maxHeight |-> 0]
    ELSE LET maxHeight == MaxHeight(boundary)
         IN  [extendedPoints |->
                 [k \in 1..Len(boundary) |->
                    LET point == boundary[k]
                    IN  IF AtHighestPlane(point.z, maxHeight, tolerance)
                        THEN point
                        ELSE IF point.z > 0
                             THEN [x |-> (point.x * maxHeight) \div point.z,
                                   y |-> (point.y * maxHeight) \div point.z,
                                   z |-> maxHeight]
                             ELSE point],
              maxHeight |-> maxHeight]

\* The test as it would be if one boundary point were enough.
NoBoundaryPoint(n) == n < 1

\* analyzeReachableSpace, line 291.
TooFewBoundaryPoints(n) == n < 3

Failure(message) == [success |-> FALSE, message |-> message, data |-> <<>>]

\* analyzeReachableSpace.  file.kind: "missing" when loadTrainingData returns
\* null, "malformed" when the file holds no training_data array (line 283
\* throws and line 330 catches), "ok" otherwise.  data is <<>> when absent.
AnalyzeReachableSpace(file) ==
    IF file.kind = "missing" THEN Failure("cannot load the training data")
    ELSE IF file.kind = "malformed" THEN Failure("error during the analysis")
    ELSE LET joystick == ExtractJoystickData(file.training_data)
             points_ == ConvertAnglesToCoordinates(joystick.rolls,
                                                   joystick.pitches, LENGTH)
             boundary == FindTrueBoundaryPoints(points_, N_SECTORS)
             extended == ExtendBoundaryToHighestPlane(boundary, GRID_TOLERANCE)
         IN  IF TooFewBoundaryPoints(Len(boundary))
             THEN Failure("too few boundary points")
             ELSE [success |-> TRUE,
                   message |-> "analysis complete",
                   data |-> <<[points |-> points_,
                               boundaryPoints |-> boundary,
                               extendedBoundaryPoints |-> extended.extendedPoints,
                               maxHeight |-> extended.maxHeight,
                               totalPoints |-> Len(points_)]>>]

\* The index as it would be if the last triangle did not wrap to the first
\* boundary vertex.
NextIndexNoWrap(i, nBoundary) == i + 1

\* generate3DVisualization, line 367.
NextIndex(i, nBoundary) == (i + 1) % nBoundary

\* generate3DVisualization, lines 343-369: the mesh of the page, or the error
\* page.  vertices and triangles are indexed from 0, as the arrays are.
Generate3DVisualization(result) ==
    IF ~result.success \/ result.data = <<>>
    THEN [error |-> TRUE, vertices |-> <<>>, triangles |-> <<>>]
    ELSE LET extendedBoundaryPoints == result.data[1].extendedBoundaryPoints
             nBoundary == Len(extendedBoundaryPoints)
         IN  [error |-> FALSE,
              vertices |->
                  [v \in 0..nBoundary |->
                     IF v = 0 THEN <<0, 0, 0>>
                     ELSE <<extendedBoundaryPoints[v].x,
                            extendedBoundaryPoints[v].y,
                            extendedBoundaryPoints[v].z>>],
              triangles |->
                  [i \in 0..(nBoundary - 1) |->
                     <<0, i + 1, NextIndex(i, nBoundary) + 1>>]]

\* The points given to findTrueBoundaryPoints: sector 0 with points at
\* several distances, one of them just below the seam and one on the z axis,
\* a point on the border of two sectors, and points in two further sectors.
Lattice ==
    {[x |-> 3, y |-> 0, z |-> 0], [x |-> 4, y |-> 0, z |-> 0],
     [x |-> 0, y |-> 0, z |-> 4], [x |-> 100, y |-> -1, z |-> 0],
     [x |-> 3, y |-> 3, z |-> 0], [x |-> -4, y |-> -3, z |-> 1],
     [x |-> -3, y |-> 0, z |-> 2]}

\* The (roll, pitch) pairs of the samples of a session file.
InputStates ==
    {[roll |-> 3687, pitch |-> 0], [roll |-> 7374, pitch |-> 0],
     [roll |-> 0, pitch |-> 3687], [roll |-> -3687, pitch |-> 0],
     [roll |-> 0, pitch |-> -3687]}

\* A point is handed to the analyzer.
AddPoint ==
    /\ boundaryPoints = <<>>
    /\ Len(points) < MaxPoints
    /\ \E p \in Lattice : points' = Append(points, p)
    /\ UNCHANGED <<recorderVars, serviceVars, boundaryPoints, training_data, analysisResult,
                   sectorTest, givenBoundary, extension, visualization>>

\* findTrueBoundaryPoints(points, 180)
FindBoundary ==
    /\ boundaryPoints = <<>>
    /\ boundaryPoints' = <<FindTrueBoundaryPoints(points, N_SECTORS)>>
    /\ UNCHANGED <<recorderVars, serviceVars, points, training_data, analysisResult,
                   sectorTest, givenBoundary, extension, visualization>>

NextBoundary == AddPoint \/ FindBoundary

BoundarySpec == Init /\ [][NextBoundary]_vars

\* One more sample in the session file.
RecordSample ==
    /\ analysisResult = <<>>
    /\ Len(training_data) < MaxSeries
    /\ \E s \in InputStates : training_data' = Append(training_data, s)
    /\ UNCHANGED <<recorderVars, serviceVars, points, boundaryPoints, analysisResult,
                   sectorTest, givenBoundary, extension, visualization>>

\* analyzeReachableSpace(filePath)
Analyze ==
    /\ analysisResult = <<>>
    /\ \E kind \in {"missing", "malformed", "ok"} :
         analysisResult' =
             <<[kind |-> kind,
                result |-> AnalyzeReachableSpace(
                               [kind |-> kind, training_data |-> training_data])]>>
    /\ UNCHANGED <<recorderVars, serviceVars, points, boundaryPoints, training_data,
                   sectorTest, givenBoundary, extension, visualization>>

\* generate3DVisualization(result, sessionName)
Visualize ==
    /\ analysisResult # <<>>
    /\ visualization = <<>>
    /\ visualization' = <<Generate3DVisualization(analysisResult[1].result)>>
    /\ UNCHANGED <<recorderVars, serviceVars, points, boundaryPoints, training_data,
                   analysisResult, sectorTest, givenBoundary, extension>>

NextAnalysis == RecordSample \/ Analyze \/ Visualize

AnalysisSpec == Init /\ [][NextAnalysis]_vars

\* ========================================= the sector test, in doubles
\* The code's numbers are IEEE-754 doubles: every +, -, * and / rounds its
\* exact result to the nearest number of MANTISSA_BITS significant bits, ties
\* to even.  A magnitude is held exactly, in units of 2^-60, as three digits
\* <<high, middle, low>> of base RADIX; every number the sector test computes
\* for up to 511 sectors is below 8 and a multiple of that unit.
RADIX == 2097152
MANTISSA_BITS == 53

Carry(h, m, l) ==
    LET m1 == m + l \div RADIX
    IN  <<h + m1 \div RADIX, m1 % RADIX, l % RADIX>>

Plus(a, b) == Carry(a[1] + b[1], a[2] + b[2], a[3] + b[3])

Less(a, b) ==
    \/ a[1] < b[1]
    \/ a[1] = b[1] /\ a[2] < b[2]
    \/ a[1] = b[1] /\ a[2] = b[2] /\ a[3] < b[3]

\* a - b for a >= b
Minus(a, b) ==
    LET bl == IF a[3] < b[3] THEN 1 ELSE 0
        bm == IF a[2] - bl < b[2] THEN 1 ELSE 0
    IN  <<a[1] - b[1] - bm,
          a[2] - bl - b[2] + bm * RADIX,
          a[3] - b[3] + bl * RADIX>>

Times(a, k) == Carry(a[1] * k, a[2] * k, a[3] * k)

\* The integer part of a / k, and whether the division left no remainder.
Quotient(a, k) ==
    LET nm == (a[1] % k) * RADIX + a[2]
        nl == (nm % k) * RADIX + a[3]
    IN  [digits |-> <<a[1] \div k, nm \div k, nl \div k>>, exact |-> nl % k = 0]

Bits(x) == CHOOSE n \in 0..21 : x < 2^n /\ (n = 0 \/ x >= 2^(n - 1))

BitLength(a) ==
    IF a[1] > 0 THEN 42 + Bits(a[1])
    ELSE IF a[2] > 0 THEN 21 + Bits(a[2]) ELSE Bits(a[3])

\* Round to nearest, ties to even.  exact: a is the exact result; otherwise
\* the exact result lies strictly between a and a + 1 unit.
RoundToNearestEven(a, exact) ==
    LET shift == BitLength(a) - MANTISSA_BITS
    IN  IF shift <= 0 THEN a
        ELSE LET p == 2^shift
                 rem == a[3] % p
                 odd == (a[3] \div p) % 2 = 1
                 up == \/ 2 * rem > p
                       \/ 2 * rem = p /\ (~exact \/ odd)
                 down == <<a[1], a[2], a[3] - rem>>
             IN  IF up THEN Plus(down, <<0, 0, p>>) ELSE down

Zero == <<0, 0, 0>>

Double(neg, mag) == [neg |-> neg /\ mag # Zero, mag |-> mag]

\* a + b
Add(a, b) ==
    IF a.neg = b.neg
    THEN Double(a.neg, RoundToNearestEven(Plus(a.mag, b.mag), TRUE))
    ELSE IF Less(a.mag, b.mag)
         THEN Double(b.neg, RoundToNearestEven(Minus(b.mag, a.mag), TRUE))
         ELSE Double(a.neg, RoundToNearestEven(Minus(a.mag, b.mag), TRUE))

\* a - b
Subtract(a, b) == Add(a, Double(~b.neg, b.mag))

\* i * a for an integer 0 <= i <= 511 (an integer is a double, exactly)
Multiply(i, a) == Double(a.neg, RoundToNearestEven(Times(a.mag, i), TRUE))

\* a / k for an integer 1 <= k <= 511
Divide(a, k) ==
    LET q == Quotient(a.mag, k)
    IN  Double(a.neg, RoundToNearestEven(q.digits, q.exact))

\* a < b
LessThan(a, b) ==
    IF a.neg # b.neg THEN a.neg
    ELSE IF a.neg THEN Less(b.mag, a.mag) ELSE Less(a.mag, b.mag)

\* 2 * Math.PI: 0x401921FB54442D18
TWO_PI_DOUBLE == Double(FALSE, <<1647099, 690309, 1335296>>)

\* The largest double below 2 * Math.PI.
BelowTwoPi == Double(FALSE, <<1647099, 690309, 1334272>>)

\* findTrueBoundaryPoints, lines 169-174: the numbers of sector i.
SectorOfCircle(i, nSectors) ==
    LET sectorWidth == Divide(TWO_PI_DOUBLE, nSectors)
        sectorCenter == Multiply(i, sectorWidth)
    IN  [sectorStart |-> Subtract(sectorCenter, Divide(sectorWidth, 2)),
         sectorEnd |-> Add(sectorCenter, Divide(sectorWidth, 2))]

\* findTrueBoundaryPoints, lines 182-191: inSector, for a sector and an
\* azimuthPositive.
InSectorOfCircle(sector, azimuthPositive) ==
    IF LessThan(sector.sectorStart, Double(FALSE, Zero))
    THEN LET adjustedStart == Add(sector.sectorStart, TWO_PI_DOUBLE)
         IN  \/ ~LessThan(azimuthPositive, adjustedStart)
             \/ LessThan(azimuthPositive, sector.sectorEnd)
    ELSE IF LessThan(TWO_PI_DOUBLE, sector.sectorEnd)
         THEN LET adjustedEnd == Subtract(sector.sectorEnd, TWO_PI_DOUBLE)
              IN  \/ ~LessThan(azimuthPositive, sector.sectorStart)
                  \/ LessThan(azimuthPositive, adjustedEnd)
         ELSE /\ ~LessThan(azimuthPositive, sector.sectorStart)
              /\ LessThan(azimuthPositive, sector.sectorEnd)

\* The sector counts the test is applied for.
SectorCounts == (1..MaxSectorCount) \cup {N_SECTORS}

\* The doubles in [0, 2 pi) the test is applied to: 0, the largest double
\* below 2 pi, and the start, the centre and the end of every sector.
Azimuths(nSectors) ==
    LET edges == [i \in 0..(nSectors - 1) |-> SectorOfCircle(i, nSectors)]
        all == {Double(FALSE, Zero), BelowTwoPi}
                 \cup {edges[i].sectorStart : i \in DOMAIN edges}
                 \cup {Add(edges[i].sectorStart, TWO_PI_DOUBLE) :
                          i \in {j \in DOMAIN edges : edges[j].sectorStart.neg}}
                 \cup {edges[i].sectorEnd : i \in DOMAIN edges}
                 \cup {Multiply(i, Divide(TWO_PI_DOUBLE, nSectors)) : i \in DOMAIN edges}
    IN  {a \in all : ~a.neg /\ LessThan(a, TWO_PI_DOUBLE)}

\* The loop of lines 171-196 for one point of azimuth azimuthPositive:
\* inSector for every sector i.
TestSectors ==
    /\ sectorTest = <<>>
    /\ \E nSectors \in SectorCounts :
         LET sectors == [i \in 0..(nSectors - 1) |-> SectorOfCircle(i, nSectors)]
         IN  \E azimuthPositive \in Azimuths(nSectors) :
               sectorTest' =
                   <<[nSectors |-> nSectors,
                      azimuthPositive |-> azimuthPositive,
                      inSector |-> [i \in 0..(nSectors - 1) |->
                                      InSectorOfCircle(sectors[i], azimuthPositive)]]>>
    /\ UNCHANGED <<recorderVars, serviceVars, points, boundaryPoints, training_data,
                   analysisResult, givenBoundary, extension,
                   visualization>>

NextSector == TestSectors

SectorSpec == Init /\ [][NextSector]_vars

\* ------------------------------------------- extendBoundaryToHighestPlane
\* The boundary points given to extendBoundaryToHighestPlane, with heights in
\* units of 5e-11: the highest, one to be scaled, two within the tolerance of
\* each other, one at height 0 and one below it.
BoundaryLattice ==
    {[x |-> 42, y |-> 0, z |-> 12], [x |-> 0, y |-> 84, z |-> 6],
     [x |-> -42, y |-> -42, z |-> 7], [x |-> 84, y |-> 42, z |-> 0],
     [x |-> 0, y |-> -42, z |-> -3]}

\* A boundary point is handed to the analyzer.
AddVertex ==
    /\ extension = <<>>
    /\ Len(givenBoundary) < MaxVertices
    /\ \E p \in BoundaryLattice : givenBoundary' = Append(givenBoundary, p)
    /\ UNCHANGED <<recorderVars, serviceVars, points, boundaryPoints, training_data,
                   analysisResult, sectorTest, extension,
                   visualization>>

\* extendBoundaryToHighestPlane(boundaryPoints)
ExtendBoundary ==
    /\ extension = <<>>
    /\ extension' = <<ExtendBoundaryToHighestPlane(givenBoundary, TOLERANCE)>>
    /\ UNCHANGED <<recorderVars, serviceVars, points, boundaryPoints, training_data,
                   analysisResult, sectorTest, givenBoundary,
                   visualization>>

NextExtension == AddVertex \/ ExtendBoundary

ExtensionSpec == Init /\ [][NextExtension]_vars

\* ================================================== TrainingDataService
\* hasValidFirebaseConfig
HasValidFirebaseConfig == validApiKey

\* isMockMode
IsMockMode(ls) == ls.mock_auth_session \/ ~HasValidFirebaseConfig

Includes_(index, sid) == \E k \in DOMAIN index : index[k] = sid

\* updateLocalTrainingIndex
UpdateLocalTrainingIndex(ls, sid) ==
    IF Includes_(ls.index, sid) THEN ls
    ELSE [ls EXCEPT !.index = Append(@, sid)]

\* saveTrainingDataToLocalStorage.  setItemOk: localStorage.setItem of the
\* session entry did not throw.
SaveTrainingDataToLocalStorage(ls, sid, setItemOk) ==
    IF setItemOk
    THEN [localStorage |->
              UpdateLocalTrainingIndex([ls EXCEPT !.sessions = @ \cup {sid}], sid),
          result |-> TRUE]
    ELSE [localStorage |-> ls, result |-> FALSE]

\* uploadTrainingDataToFirebase for the session record sid.  setDocOk: the
\* import of the Firebase modules and setDoc did not throw.  written: the
\* record was written to Firestore by this call.
UploadTrainingDataToFirebase(ls, fs, sid, setDocOk, setItemOk) ==
    IF IsMockMode(ls) \/ ~HasValidFirebaseConfig \/ ~setDocOk
    THEN LET saved == SaveTrainingDataToLocalStorage(ls, sid, setItemOk)
         IN  [localStorage |-> saved.localStorage, firestore |-> fs,
              result |-> saved.result, written |-> FALSE]
    ELSE [localStorage |-> ls, firestore |-> fs \cup {sid},
          result |-> TRUE, written |-> TRUE]

\* getLocalTrainingSessions: the ids of the index that have an entry, in the
\* order of the index.
GetLocalTrainingSessions(ls) ==
    SelectSeq(ls.index, LAMBDA sid : sid \in ls.sessions)

\* removeTrainingDataFromLocalStorage
RemoveTrainingDataFromLocalStorage(ls, sid) ==
    [ls EXCEPT !.sessions = @ \ {sid},
               !.index = SelectSeq(@, LAMBDA id : id # sid)]

\* syncLocalTrainingDataToFirebase, lines 392-399: the loop from the k-th
\* local session on.  t: the storage, Firestore, successCount and the ids
\* written so far.
RECURSIVE SyncLoop(_, _, _, _, _)
SyncLoop(localSessions, k, t, setDocOk, setItemOk) ==
    IF k > Len(localSessions) THEN t
    ELSE LET session == localSessions[k]
             up == UploadTrainingDataToFirebase(t.localStorage, t.firestore,
                                                session, setDocOk[session],
                                                setItemOk)
             written == IF up.written THEN t.written \cup {session}
                        ELSE t.written
         IN  SyncLoop(localSessions, k + 1,
                 IF up.result
                 THEN [localStorage |->
                           RemoveTrainingDataFromLocalStorage(up.localStorage,
                                                              session),
                       firestore |-> up.firestore,
                       successCount |-> t.successCount + 1,
                       written |-> written]
                 ELSE [localStorage |-> up.localStorage,
                       firestore |-> up.firestore,
                       successCount |-> t.successCount,
                       written |-> written],
                 setDocOk, setItemOk)

\* A mock session is signed in or out, or the build gets another API key.
Environment ==
    /\ \E mock \in BOOLEAN, key \in BOOLEAN :
         /\ <<mock, key>> # <<localStorage.mock_auth_session, validApiKey>>
         /\ localStorage' = [localStorage EXCEPT !.mock_auth_session = mock]
         /\ validApiKey' = key
    /\ UNCHANGED <<recorderVars, analyzerVars, firestore, syncResult>>

\* uploadTrainingDataToFirebase(sessionData) for the record of a session
\* that has ended.
Upload ==
    /\ \E sid \in 1..MaxSessions, setDocOk \in BOOLEAN, setItemOk \in BOOLEAN :
         LET up == UploadTrainingDataToFirebase(localStorage, firestore, sid,
                                                setDocOk, setItemOk)
         IN  /\ localStorage' = up.localStorage
             /\ firestore' = up.firestore
    /\ UNCHANGED <<recorderVars, analyzerVars, validApiKey, syncResult>>

\* syncLocalTrainingDataToFirebase()
Sync ==
    /\ syncResult.run < MaxSyncs
    /\ \E setDocOk \in [1..MaxSessions -> BOOLEAN], setItemOk \in BOOLEAN :
         LET done == SyncLoop(GetLocalTrainingSessions(localStorage), 1,
                              [localStorage |-> localStorage,
                               firestore |-> firestore,
                               successCount |-> 0, written |-> {}],
                              setDocOk, setItemOk)
         IN  /\ localStorage' = done.localStorage
             /\ firestore' = done.firestore
             /\ syncResult' = [run |-> syncResult.run + 1,
                               successCount |-> done.successCount,
                               written |-> done.written]
    /\ UNCHANGED <<recorderVars, analyzerVars, validApiKey>>

NextService == Environment \/ Upload \/ Sync

ServiceSpec == Init /\ [][NextService]_vars

\* ------------------------------------------------------------------ C1
\* C1: a close of the channel leaves isRecording false and currentSessionId
\* null; from then on they change only when a session_started message reaches
\* a start listener attached to the current socket (a startRecording made
\* after the close); and while they are false/null no sample is appended and
\* no training_data message is sent.
C1_NoSilentResume ==
    [][ /\ (readyState # "CLOSED" /\ readyState' = "CLOSED")
            => (~isRecording' /\ currentSessionId' = 0)
        /\ ((~isRecording /\ isRecording')
              \/ (currentSessionId = 0 /\ currentSessionId' # 0))
            => /\ readyState = "OPEN"
               /\ inflight # <<>>
               /\ Head(inflight).type = "session_started"
               /\ StartListenerOnSocket
        /\ (~isRecording \/ currentSessionId = 0)
            => /\ dataBuffer' \in {dataBuffer, <<>>}
               /\ appended' \in {appended, 0}
               /\ \A i \in DOMAIN NewlySent : NewlySent[i].type # "training_data"
      ]_vars

\* The channel dropped during a session with samples buffered, the recorder
\* has reconnected, the sampling timer is still live, and nothing resumed.
C1_DroppedSessionNotResumed ==
    /\ wsId > 1
    /\ readyState = "OPEN"
    /\ liveIntervals # {}
    /\ dataBuffer # <<>>
    /\ ~isRecording
    /\ currentSessionId = 0

\* The positions in the wire log of the end_session requests.
EndRequests == {i \in DOMAIN sent : sent[i].type = "end_session"}

StrictlyIncreasing(samples) ==
    \A i \in 1..(Len(samples) - 1) :
        samples[i].timestamp < samples[i + 1].timestamp

\* ------------------------------------------------------------------ C2
\* C2: once end_session has been sent for a session in which no send threw,
\* the training_data batches sent for it, concatenated, are exactly the
\* samples appended, and every batch but the last has BUFFER_SIZE samples.
C2_BatchesAreTheAppendedSamples ==
    \A e \in EndRequests :
        sendFailures = 0 =>
            LET sid == sent[e].sid
                batches == BatchesAt(sent, sid, e)
            IN  /\ SentSamples(sent, sid, e) = AppendedSamples(sid)
                /\ \A i \in batches :
                      (\E j \in batches : j > i) => Len(sent[i].data) = BUFFER_SIZE

\* A session of more than BUFFER_SIZE samples has ended: one full batch went
\* out at capacity and the rest with the final flush.
C2_FullBatchThenRest ==
    \E e \in EndRequests :
        /\ sendFailures = 0
        /\ appended > BUFFER_SIZE
        /\ Cardinality(BatchesAt(sent, sent[e].sid, e)) = 2

\* ------------------------------------------------------------------ C3
\* C3: in every reachable state the samples carried by the training_data
\* messages of one session, read in send order, have strictly increasing
\* timestamps: none is older than one already sent and none is sent twice.
C3_SentInAppendOrder ==
    \A sid \in 1..nextSid :
        StrictlyIncreasing(SentSamples(sent, sid, Len(sent)))

\* A send threw at capacity, the batch was sent by a later flush, and a
\* further batch followed it.
C3_BatchesAfterFailedSend ==
    /\ sendFailures > 0
    /\ \E i, j \in DOMAIN sent :
          /\ i < j
          /\ sent[i].type = "training_data"
          /\ Len(sent[i].data) > BUFFER_SIZE
          /\ sent[j].type = "training_data"

C9_FailedBatchDropped ==
    [][sendFailures' > sendFailures => dataBuffer' = <<>>]_vars

\* ---------------------------------------------------------- the calls
StartCalls == {c \in DOMAIN calls : calls[c].kind = "start"}
StopCalls == {c \in DOMAIN calls : calls[c].kind = "stop"}

\* The call's request was sent and its promise was resolved false without its
\* handler having acted: the 5 s timeout fired.
TimedOut(c) ==
    calls[c].accepted /\ calls[c].result = "false" /\ calls[c].ack = "none"

\* ------------------------------------------------------------------ C5
\* C5 as stated: while every startRecording made so far has failed, the last of
\* them by its timeout, no session is started: isRecording is false,
\* currentSessionId is null and no sampling timer is live.
C5_NoSessionAfterStartTimeout ==
    (/\ StartCalls # {}
     /\ \A c \in StartCalls : calls[c].result = "false"
     /\ \E c \in StartCalls : calls[c].accepted)
      => (~isRecording /\ currentSessionId = 0 /\ liveIntervals = {})

\* ------------------------------------------------------------------ C6
\* C6 as stated: when the last call made is a stopRecording that failed by its
\* timeout, the session is abandoned: isRecording is false and
\* currentSessionId is null.
C6_AbandonedAfterStopTimeout ==
    (calls # <<>> /\ calls[Len(calls)].kind = "stop" /\ TimedOut(Len(calls)))
      => (~isRecording /\ currentSessionId = 0)

\* ------------------------------------------------------------------ C7
\* C7: a stopRecording whose promise resolved true, or whose handler went on
\* to build and upload the session record, sent its end_session request and
\* had its handler act on a session_ended message; and a promise turns true
\* only in the step that completes that handler.
C7_SavedOnlyAfterAck ==
    /\ [](\A c \in StopCalls :
            (calls[c].result = "true" \/ c \in uploads)
              => (calls[c].accepted /\ calls[c].ack = "session_ended"))
    /\ [][\A c \in StopCalls :
            (calls[c].result # "true" /\ calls'[c].result = "true")
              => (c \in uploads /\ c \notin uploads')]_vars

\* A stopRecording resolved true.
C7_StopResolvedTrue ==
    \E c \in StopCalls : calls[c].result = "true"

C10_RejectedStartHasNoEffect ==
    /\ [][(/\ Len(calls') = Len(calls) + 1
           /\ calls'[Len(calls')].kind = "start"
           /\ (isRecording \/ readyState # "OPEN"))
            => /\ calls'[Len(calls')].result = "false"
               /\ ~calls'[Len(calls')].accepted
               /\ UNCHANGED <<isRecording, currentSessionId, dataBuffer,
                              samplingInterval, liveIntervals, sent, inflight,
                              listeners, timeouts, appended>>]_vars
    /\ [](Cardinality(liveIntervals) <= 1)

\* A startRecording was refused during an active session with a user logged in.
C10_StartRefusedWhileRecording ==
    /\ calls # <<>>
    /\ calls[Len(calls)].kind = "start"
    /\ ~calls[Len(calls)].accepted
    /\ user
    /\ isRecording
    /\ readyState = "OPEN"
    /\ liveIntervals # {}

\* ------------------------------------------------------------------ C11
\* The session whose end has already been requested on this socket.
StopInProgress ==
    \E i \in EndRequests : sent[i].sid = currentSessionId

\* C11 (as stated): a stopRecording call made when no session is active, or
\* made while an earlier stop of the same session is in progress, sends
\* nothing, attaches no listener, arms no timeout, triggers no upload and
\* leaves the recorder's state as it was.
C11_StopIsIdempotent ==
    [][ (/\ Len(calls') = Len(calls) + 1
         /\ calls'[Len(calls')].kind = "stop"
         /\ (~isRecording \/ currentSessionId = 0 \/ StopInProgress))
        => /\ ~calls'[Len(calls')].accepted
           /\ UNCHANGED <<sent, inflight, listeners, timeouts, uploads,
                          isRecording, currentSessionId, dataBuffer,
                          samplingInterval, liveIntervals>>
      ]_vars

\* ------------------------------------------------------------------ C12
\* C12: a startRecording call whose request was sent does not stay pending:
\* while it is pending its 5 s timeout is armed, and it is eventually
\* resolved.  It is resolved true only by its handler acting on a
\* session_started message; when no such message reaches the handler (none
\* was sent in time, or the channel closed first) it is resolved false.
C12_StartResolvesFalseWithoutAck ==
    /\ [](\A c \in StartCalls :
            /\ (calls[c].result = "pending" => c \in timeouts)
            /\ (calls[c].result = "true" => calls[c].ack = "session_started")
            /\ (calls[c].ack # "none" => calls[c].ack = "session_started"))
    /\ \A c \in 1..TimeoutCalls :
         (c \in StartCalls /\ calls[c].result = "pending")
             ~> (c \in StartCalls /\ calls[c].result # "pending")

\* The channel closed before the acknowledgement of a start request arrived,
\* the recorder has reconnected, and the call was resolved false.
C12_StartFailedAfterClose ==
    \E c \in StartCalls :
        /\ TimedOut(c)
        /\ \E l \in listeners : l.call = c /\ l.ws < wsId

\* ------------------------------------------------------------------ C13
\* C13 (as stated): the session record built when a session ends counts, in
\* total_data_points, the samples the session delivered in training_data
\* messages, and its session_duration_ms is its session_end_time minus its
\* session_start_time.
C13_RecordDescribesSession ==
    [][ sessionData' # sessionData
        => /\ sessionData'.total_data_points
                = Len(SentSamples(sent, sessionData'.session_id, Len(sent)))
           /\ sessionData'.session_duration_ms
                = sessionData'.session_end_time - sessionData'.session_start_time
      ]_vars

\* ------------------------------------------------------------------ C14
\* C14 (as stated): the buffer never holds more than BUFFER_SIZE samples, an
\* append that brings it to capacity leaves it empty, and no training_data
\* message carries more than BUFFER_SIZE samples.
C14_BufferWithinCapacity ==
    [][ /\ Len(dataBuffer') <= BUFFER_SIZE
        /\ (appended' = appended + 1 /\ Len(dataBuffer) + 1 >= BUFFER_SIZE)
            => dataBuffer' = <<>>
        /\ \A i \in DOMAIN NewlySent :
             NewlySent[i].type = "training_data"
                 => Len(NewlySent[i].data) <= BUFFER_SIZE
      ]_vars

\* ------------------------------------------------------------------ C15
\* C15: the delivery of an error or data_received message, in any state,
\* leaves isRecording, currentSessionId, the buffer, the sampling timer and
\* every handshake (its promise, its listener, its timeout, its upload) as
\* they were.
C15_LoggedMessagesChangeNothing ==
    [][ (/\ readyState = "OPEN"
         /\ readyState' = "OPEN"
         /\ inflight # <<>>
         /\ Head(inflight).type \in {"error", "data_received"}
         /\ inflight' = Tail(inflight))
        => UNCHANGED <<isRecording, currentSessionId, dataBuffer,
                       samplingInterval, liveIntervals, lastSampleTime, calls,
                       listeners, timeouts, uploads, sent, sessionData>>
      ]_vars

\* A data_received and then an error message are about to be delivered to a
\* recorder that is recording and has a handshake pending on the socket.
C15_ErrorDuringHandshake ==
    /\ readyState = "OPEN"
    /\ Len(inflight) >= 2
    /\ inflight[1].type = "data_received"
    /\ inflight[2].type = "error"
    /\ \E l \in listeners : l.ws = wsId /\ calls[l.call].result = "pending"
    /\ isRecording

\* ------------------------------------------------------------------ C16
\* A step that is a tick of the sampling timer during an active recording:
\* ticks are the only steps at which the clock advances.
RecordingTick == now' > now /\ isRecording /\ currentSessionId # 0

\* C16: during an active recording a tick on which the orientation source is
\* unavailable appends and sends nothing; a tick on which it is available
\* appends exactly one sample, at rest or not, and that sample's hasValidInput
\* is true exactly when pitch, roll or yaw is non-zero.
C16_OneSamplePerTickWithSource ==
    [][ RecordingTick
        => IF ~inputController
           THEN UNCHANGED <<dataBuffer, appended, sent, inflight, trainingData>>
           ELSE /\ appended' = appended + 1
                /\ \/ dataBuffer' = Append(dataBuffer,
                                           Sample(appended', currentSessionId))
                   \/ /\ dataBuffer' = <<>>
                      /\ sent' = Append(sent,
                           Msg("training_data", currentSessionId,
                               Append(dataBuffer,
                                      Sample(appended', currentSessionId))))
                /\ trainingData'.inputState = orientation
                /\ trainingData'.hasValidInput
                     = (orientation # AtRest)
      ]_vars

\* A session of three ticks, one of which found the source missing: it has
\* taken two samples, the last with the source turned about the yaw axis
\* only, and the source is missing now.
C16_YawSampledThenSourceMissing ==
    /\ isRecording
    /\ appended = 2
    /\ Len(dataBuffer) = 2
    /\ trainingData.inputState = Turned
    /\ trainingData.hasValidInput
    /\ ~inputController
    /\ lastSampleTime > 2 * LateTick

\* ------------------------------------------------------------------ C17
\* C17: the actualInterval of a sample is the clock time that passed between
\* the tick that built it and the previous tick of the same session (for the
\* first tick, the start of the sampling), whatever the nominal period is.
C17_IntervalIsElapsedTime ==
    [][ (RecordingTick /\ inputController)
        => trainingData'.actualInterval = now' - prevTick
      ]_vars

\* The second sample of a session was taken by a tick that fired LateTick ms
\* after the tick before it.
C17_LateTickSampled ==
    /\ isRecording
    /\ appended = 2
    /\ trainingData.actualInterval = LateTick
    /\ now >= SAMPLING_RATE + LateTick

\* ------------------------------------------------------------------ C19
\* The positions of the points of ps that lie in sector i.
PointsInSector(ps, i) == {k \in DOMAIN ps : InSector(ps[k], i, N_SECTORS)}

PopulatedSectors(ps) ==
    {i \in 0..(N_SECTORS - 1) : PointsInSector(ps, i) # {}}

\* C19: findTrueBoundaryPoints returns one point for every sector that holds
\* an input point and none for the others (between 0 and N points); the point
\* returned for a sector is an input point of that sector, and no input point
\* of the sector is strictly farther from the origin.
C19_OneFarthestPointPerSector ==
    boundaryPoints # <<>> =>
        LET found == boundaryPoints[1]
        IN  /\ Len(found) = Cardinality(PopulatedSectors(points))
            /\ Len(found) <= N_SECTORS
            /\ \A i \in 0..(N_SECTORS - 1) :
                 LET inputs == PointsInSector(points, i)
                     outputs == PointsInSector(found, i)
                 IN  /\ Cardinality(outputs) = IF inputs = {} THEN 0 ELSE 1
                     /\ \A o \in outputs :
                          /\ \E k \in inputs : points[k] = found[o]
                          /\ \A k \in inputs :
                               DistanceSquared(points[k])
                                   <= DistanceSquared(found[o])

\* Three points were given, two of them in one sector at different distances,
\* and two boundary points were returned.
C19_NearerPointDiscarded ==
    /\ boundaryPoints # <<>>
    /\ Len(points) = 3
    /\ Len(boundaryPoints[1]) = 2
    /\ \E i \in PopulatedSectors(points) :
         \E j, k \in PointsInSector(points, i) :
             DistanceSquared(points[j]) < DistanceSquared(points[k])

\* ------------------------------------------------------------------ C18
\* The points analyzeReachableSpace projects the session file's samples to.
SeriesPoints ==
    LET joystick == ExtractJoystickData(training_data)
    IN  ConvertAnglesToCoordinates(joystick.rolls, joystick.pitches, LENGTH)

\* C18: when the file cannot be loaded or read, or its samples populate fewer
\* than three sectors (an empty series included), analyzeReachableSpace
\* returns success = false with a message and no data; data is present
\* exactly when success is true; a series of one constant sample populates
\* one sector and fails.
C18_TooFewSectorsFailsCleanly ==
    analysisResult # <<>> =>
        LET kind == analysisResult[1].kind
            result == analysisResult[1].result
        IN  /\ (kind # "ok" \/ Cardinality(PopulatedSectors(SeriesPoints)) < 3)
                => /\ ~result.success
                   /\ result.message # ""
                   /\ result.data = <<>>
            /\ (result.data # <<>>) <=> result.success
            /\ (/\ kind = "ok"
                /\ \A k \in DOMAIN training_data :
                     training_data[k] = training_data[1])
                => ~result.success

\* A readable file of three samples, all with the same non-zero tilt in the
\* same direction, was analysed and the analysis failed.
C18_ConstantSeriesFails ==
    /\ analysisResult # <<>>
    /\ analysisResult[1].kind = "ok"
    /\ ~analysisResult[1].result.success
    /\ Len(training_data) = 3
    /\ training_data[1].pitch # 0
    /\ \A k \in DOMAIN training_data : training_data[k] = training_data[1]

\* ------------------------------------------------------------------ C20
\* The square of the tilt angle of a sample.
TiltSquared(s) == s.roll * s.roll + s.pitch * s.pitch

SectorOf(point) ==
    CHOOSE i \in 0..(N_SECTORS - 1) : InSector(point, i, N_SECTORS)

\* C20 (as stated): every boundary point of a successful analysis is the
\* projection of a sample whose tilt angle is the largest among the samples
\* of its sector, in whatever order the samples were recorded.
C20_BoundaryIsLargestTilt ==
    (analysisResult # <<>> /\ analysisResult[1].result.success) =>
        LET found == analysisResult[1].result.data[1].boundaryPoints
        IN  \A o \in DOMAIN found :
              \E k \in DOMAIN training_data :
                 /\ SeriesPoints[k] = found[o]
                 /\ \A j \in DOMAIN training_data :
                      SectorOf(SeriesPoints[j]) = SectorOf(found[o])
                          => TiltSquared(training_data[j])
                                 <= TiltSquared(training_data[k])

\* ------------------------------------------------------------------ C21
\* C21 (as stated): for every sector count and every azimuth in [0, 2 pi),
\* those at 0, just below 2 pi and exactly on a sector edge included, exactly
\* one sector reports the azimuth as inside.
C21_SectorsPartitionTheCircle ==
    sectorTest # <<>> =>
        Cardinality({i \in DOMAIN sectorTest[1].inSector :
                        sectorTest[1].inSector[i]}) = 1

\* ------------------------------------------------------------------ C22
\* The largest z among the points of a non-empty sequence.
LargestZ(ps) == CHOOSE z \in {ps[k].z : k \in DOMAIN ps} :
                    \A k \in DOMAIN ps : ps[k].z <= z

\* p is q scaled by maxHeight / q.z.
ScaledTo(p, q, maxHeight) ==
    /\ p.z = maxHeight
    /\ p.x * q.z = q.x * maxHeight
    /\ p.y * q.z = q.y * maxHeight

\* C22 (as stated): for a non-empty boundary, maxHeight is the largest z of
\* the boundary, the extended boundary has its length and order, every
\* extended vertex has z equal to maxHeight, a vertex at maxHeight is
\* returned unchanged and any other is scaled by maxHeight / z.
C22_EveryVertexAtMaxHeight ==
    (extension # <<>> /\ givenBoundary # <<>>) =>
        LET extended == extension[1].extendedPoints
            maxHeight == extension[1].maxHeight
        IN  /\ maxHeight = LargestZ(givenBoundary)
            /\ Len(extended) = Len(givenBoundary)
            /\ \A k \in DOMAIN givenBoundary :
                 /\ extended[k].z = maxHeight
                 /\ IF givenBoundary[k].z = maxHeight
                    THEN extended[k] = givenBoundary[k]
                    ELSE ScaledTo(extended[k], givenBoundary[k], maxHeight)

\* C22 (amended): for a non-empty boundary, maxHeight is the largest z of the
\* boundary and the extended boundary has its length and order; a vertex
\* whose z is within the tolerance of maxHeight, or is zero or negative, is
\* returned unchanged, and every other vertex is scaled by maxHeight / z, so
\* that its z is maxHeight.
C22_PositiveVerticesRaisedToMaxHeight ==
    (extension # <<>> /\ givenBoundary # <<>>) =>
        LET extended == extension[1].extendedPoints
            maxHeight == extension[1].maxHeight
        IN  /\ maxHeight = LargestZ(givenBoundary)
            /\ Len(extended) = Len(givenBoundary)
            /\ \A k \in DOMAIN givenBoundary :
                 IF \/ givenBoundary[k].z <= 0
                    \/ maxHeight - givenBoundary[k].z < TOLERANCE
                 THEN extended[k] = givenBoundary[k]
                 ELSE ScaledTo(extended[k], givenBoundary[k], maxHeight)

\* A boundary was extended that holds a vertex at the largest height, a lower
\* one that was scaled and one at or below height 0 that was not.
C22_ScaledAndUnscaledVertices ==
    /\ extension # <<>>
    /\ Len(givenBoundary) = 3
    /\ givenBoundary[1].z = LargestZ(givenBoundary)
    /\ givenBoundary[2].z > 0
    /\ extension[1].extendedPoints[2] # givenBoundary[2]
    /\ extension[1].extendedPoints[2].z = givenBoundary[1].z
    /\ givenBoundary[3].z <= 0
    /\ extension[1].extendedPoints[3] = givenBoundary[3]

\* ------------------------------------------------------------------ C23
\* C23: for an extended boundary of n >= 3 vertices the mesh has the vertex
\* list [origin, v1..vn] and exactly n triangles; triangle i is
\* (0, i+1, ((i+1) mod n)+1), every index lies in 0..n, every triangle
\* contains the origin, and each pair of cyclically consecutive boundary
\* vertices, the last-to-first pair included, is the outer edge of exactly one
\* triangle.
C23_TriangleFanClosesTheCone ==
    (/\ visualization # <<>>
     /\ analysisResult[1].result.success
     /\ Len(analysisResult[1].result.data[1].extendedBoundaryPoints) >= 3) =>
        LET v == analysisResult[1].result.data[1].extendedBoundaryPoints
            n == Len(v)
            vertices == visualization[1].vertices
            triangles == visualization[1].triangles
        IN  /\ ~visualization[1].error
            /\ DOMAIN vertices = 0..n
            /\ vertices[0] = <<0, 0, 0>>
            /\ \A k \in 1..n : vertices[k] = <<v[k].x, v[k].y, v[k].z>>
            /\ DOMAIN triangles = 0..(n - 1)
            /\ \A i \in 0..(n - 1) :
                 /\ triangles[i] = <<0, i + 1, ((i + 1) % n) + 1>>
                 /\ \A j \in 1..3 : triangles[i][j] \in 0..n
                 /\ \E j \in 1..3 : triangles[i][j] = 0
            /\ \A k \in 1..n :
                 Cardinality({i \in 0..(n - 1) :
                     {triangles[i][2], triangles[i][3]} = {k, (k % n) + 1}}) = 1

\* A successful analysis with four boundary vertices was turned into a mesh
\* of four triangles.
C23_FourTriangles ==
    /\ visualization # <<>>
    /\ ~visualization[1].error
    /\ Len(analysisResult[1].result.data[1].extendedBoundaryPoints) = 4
    /\ DOMAIN visualization[1].triangles = 0..3

\* ------------------------------------------------------------------ C24
\* The indexes of the connected devices that are standard gamepads.
StandardGamepads ==
    {i \in DOMAIN gamepads : gamepads[i] # NoDevice /\ ~IsVJoyDevice(gamepads[i])}

\* C24 (as stated): after any sequence of gamepadconnected and
\* gamepaddisconnected events, if a standard gamepad is connected then the
\* active device is a standard gamepad; a vJoy controller is the active device
\* only when no standard gamepad is connected.
C24_StandardGamepadHasPriority ==
    /\ StandardGamepads # {} => gamepadIndex \in StandardGamepads
    /\ vJoyDeviceId # NoDevice => StandardGamepads = {}

\* ------------------------------------------------------------------ C25
\* C25 (as stated): a run of syncLocalTrainingDataToFirebase deletes a local
\* session (its entry and its id in the index) only if the run wrote it to
\* Firebase, and counts only the sessions it wrote; in mock mode it deletes
\* and counts nothing.
C25_SyncDeletesOnlyWrittenSessions ==
    [][ syncResult'.run # syncResult.run
        => /\ \A sid \in localStorage.sessions \ localStorage'.sessions :
                sid \in syncResult'.written /\ sid \in firestore'
           /\ \A k \in DOMAIN localStorage.index :
                Includes_(localStorage'.index, localStorage.index[k])
                    \/ localStorage.index[k] \in syncResult'.written
           /\ syncResult'.successCount = Cardinality(syncResult'.written)
           /\ IsMockMode(localStorage)
                => /\ localStorage' = localStorage
                   /\ syncResult'.successCount = 0
      ]_vars

\* ------------------------------------------------------------------ C26
\* A startRecording call has resolved true on the acknowledgement of
\* session sid.
StartedTrue(sid) ==
    \E c \in DOMAIN calls :
        /\ calls[c].kind = "start"
        /\ calls[c].result = "true"
        /\ calls[c].session = sid

\* C26 (as stated): while the recorder is in a session that a startRecording
\* resolved true for, a step takes it out of that session only if it is the
\* close of the channel or the completion of a stopRecording made for that
\* session; a continuation of an earlier session never does.
C26_SessionEndsOnlyByCloseOrItsOwnStop ==
    [][ ( /\ isRecording
          /\ currentSessionId # 0
          /\ StartedTrue(currentSessionId)
          /\ <<isRecording', currentSessionId'>> # <<isRecording, currentSessionId>> )
        => \/ readyState # "CLOSED" /\ readyState' = "CLOSED"
           \/ \E c \in uploads \ uploads' :
                calls[c].session = currentSessionId
      ]_vars

\* ------------------------------------------------------------------ C27
\* The startRecording calls a step resolves true.
ResolvedTrueByStep ==
    {c \in DOMAIN calls :
        /\ calls[c].kind = "start"
        /\ calls[c].result = "pending"
        /\ calls'[c].result = "true"}

\* C27 (as stated): one session_started acknowledgement resolves at most one
\* startRecording call true, and a session_started delivered on the open
\* socket makes its session the current one.
C27_OneAcknowledgementOneStart ==
    [][ /\ Cardinality(ResolvedTrueByStep) <= 1
        /\ ( /\ readyState = "OPEN" /\ readyState' = "OPEN"
             /\ inflight # <<>>
             /\ inflight' = Tail(inflight)
             /\ Head(inflight).type = "session_started" )
           => currentSessionId' = Head(inflight).sid
      ]_vars

\* ------------------------------------------------------------------ C28
\* The samples of batch were all appended while sid was the current session.
AppendedUnder(batch, sid) ==
    \A k \in DOMAIN batch : batch[k].session = sid

\* C28: every training_data message a step sends carries only samples that
\* were appended under the session id the message is tagged with, and the
\* buffer of a session in progress holds only samples of that session.
C28_SamplesStayInTheirSession ==
    [][ /\ \A i \in DOMAIN NewlySent :
              NewlySent[i].type = "training_data"
                  => AppendedUnder(NewlySent[i].data, NewlySent[i].sid)
        /\ currentSessionId' # 0 /\ isRecording'
              => AppendedUnder(dataBuffer', currentSessionId')
      ]_vars

\* Session 1 was started and dropped without a stopRecording, and a batch of
\* session 2 has been sent on the next socket.
C28_BatchOfALaterSession ==
    /\ wsId = 2
    /\ StartedTrue(1)
    /\ \A c \in DOMAIN calls : calls[c].kind = "stop" => calls[c].session # 1
    /\ \E i \in DOMAIN sent :
         /\ sent[i].type = "training_data"
         /\ sent[i].sid = 2
         /\ sent[i].data # <<>>

\* ------------------------------------------------------------------ C29
\* The WebSocket objects that are connecting or open.  A socket is replaced
\* only by connectWebSocket, so an earlier socket is live only if a reconnect
\* timer fired while this.ws was not closed.
LiveSockets == IF readyState \in {"CONNECTING", "OPEN"} THEN 1 ELSE 0

\* C29: the live WebSocket objects and the pending reconnect timers together
\* number at most one, and a reconnect timer never fires while a socket is
\* live (which would leave two live sockets).
C29_AtMostOneConnectionOrRetry ==
    /\ [](LiveSockets + reconnectTimers <= 1)
    /\ [][wsId' # wsId => LiveSockets = 0]_vars

\* The channel has been lost five times and the sixth socket is open.
C29_SixthSocketOpen ==
    /\ wsId = ManyConnections
    /\ readyState = "OPEN"
    /\ reconnectTimers = 0

\* ------------------------------------------------------------------ C30
\* C30: between events isRecording is true exactly when currentSessionId is
\* non-null, and a step appends a sample only from a state where both hold.
C30_RecordingIffSession ==
    /\ [](isRecording <=> currentSessionId # 0)
    /\ [][(appended' = appended + 1 \/ Len(dataBuffer') > Len(dataBuffer))
            => (isRecording /\ currentSessionId # 0)]_vars

\* A sample has been appended in the second session, on the second socket,
\* after the first session had been started.
C30_AppendedInSecondSession ==
    /\ wsId = 2
    /\ StartedTrue(1)
    /\ isRecording
    /\ currentSessionId = 2
    /\ appended > 0
    /\ dataBuffer # <<>>

====
